---- MODULE Spec2Model ----
(***************************************************************************)
(* Model of the string case converters (src/basic_prompt.js,               *)
(* src/chain_prompt.js) and of the comments route                          *)
(* (src/backend/routes/api/comments.js).                                   *)
(*                                                                         *)
(* A JavaScript string is a sequence of one-character strings.  A value    *)
(* handed to a converter is a record [type, val]: type is the result of    *)
(* typeof (with "null" for the null value) and val the characters of a     *)
(* string (<<>> for every other type).                                     *)
(***************************************************************************)
EXTENDS Integers, Sequences, FiniteSets, TLC

\* ------------------------------------------------------------------ bounds
MaxLen == 4          \* longest enumerated input string
MaxReapply == 2      \* how often a converter is re-applied to its own output
MaxRequests == 2     \* HTTP requests issued to the comments route

\* ------------------------------------------------------- character classes
LowerSeq == <<"a","b","c","d","e","f","g","h","i","j","k","l","m",
              "n","o","p","q","r","s","t","u","v","w","x","y","z">>
UpperSeq == <<"A","B","C","D","E","F","G","H","I","J","K","L","M",
              "N","O","P","Q","R","S","T","U","V","W","X","Y","Z">>
LowerAZ == {LowerSeq[i] : i \in 1..26}
UpperAZ == {UpperSeq[i] : i \in 1..26}
Letter == LowerAZ \cup UpperAZ
Digit == {"0","1","2","3","4","5","6","7","8","9"}
\* \w of a JavaScript regular expression: [A-Za-z0-9_]
WordChar == Letter \cup Digit \cup {"_"}
\* \s of a JavaScript regular expression, and the characters trim() strips
WhiteSpace == {" ", "\t", "\n"}

\* String.prototype.toLowerCase on one character.  Outside A-Z the only
\* cased character of the model is the non-ASCII letter "É".
ToLowerChar(c) ==
    IF c \in UpperAZ THEN LowerSeq[CHOOSE i \in 1..26 : UpperSeq[i] = c]
    ELSE IF c = "É" THEN "é"
    ELSE c

ToUpperChar(c) ==
    IF c \in LowerAZ THEN UpperSeq[CHOOSE i \in 1..26 : LowerSeq[i] = c]
    ELSE IF c = "é" THEN "É"
    ELSE c

toLowerCase(s) == [i \in 1..Len(s) |-> ToLowerChar(s[i])]
toUpperCase(s) == [i \in 1..Len(s) |-> ToUpperChar(s[i])]

\* ------------------------------------------------------ string primitives
RECURSIVE TrimStart(_)
TrimStart(s) ==
    IF s # <<>> /\ Head(s) \in WhiteSpace THEN TrimStart(Tail(s)) ELSE s

RECURSIVE TrimEnd(_)
TrimEnd(s) ==
    IF s # <<>> /\ s[Len(s)] \in WhiteSpace
    THEN TrimEnd(SubSeq(s, 1, Len(s) - 1)) ELSE s

\* String.prototype.trim
trim(s) == TrimEnd(TrimStart(s))

\* s.replace(/[^...]/g, ""): drop every character outside Keep
RECURSIVE RemoveNotIn(_, _)
RemoveNotIn(s, Keep) ==
    IF s = <<>> THEN <<>>
    ELSE IF Head(s) \in Keep THEN <<Head(s)>> \o RemoveNotIn(Tail(s), Keep)
    ELSE RemoveNotIn(Tail(s), Keep)

\* s.replace(/[Class]+/g, rep): every maximal run of Class becomes rep
RECURSIVE ReplaceRuns(_, _, _)
ReplaceRuns(s, Class, rep) ==
    IF s = <<>> THEN <<>>
    ELSE IF Head(s) \in Class
         THEN IF Len(s) > 1 /\ s[2] \in Class
              THEN ReplaceRuns(Tail(s), Class, rep)
              ELSE rep \o ReplaceRuns(Tail(s), Class, rep)
    ELSE <<Head(s)>> \o ReplaceRuns(Tail(s), Class, rep)

\* s.replace(/([First])([Second])/g, "$1-$2"): left-to-right scan for
\* non-overlapping two-character matches, a hyphen put between the two
RECURSIVE InsertHyphen(_, _, _)
InsertHyphen(s, First, Second) ==
    IF Len(s) < 2 THEN s
    ELSE IF s[1] \in First /\ s[2] \in Second
         THEN <<s[1], "-", s[2]>> \o InsertHyphen(Tail(Tail(s)), First, Second)
    ELSE <<s[1]>> \o InsertHyphen(Tail(s), First, Second)

\* s.split(/[Sep]+/): the fragments between the maximal runs of Sep; a run
\* at the start or at the end of s leaves an empty fragment there
RECURSIVE SplitAcc(_, _, _)
SplitAcc(s, Sep, cur) ==
    IF s = <<>> THEN <<cur>>
    ELSE IF Head(s) \in Sep
         THEN IF Len(s) > 1 /\ s[2] \in Sep
              THEN SplitAcc(Tail(s), Sep, cur)
              ELSE <<cur>> \o SplitAcc(Tail(s), Sep, <<>>)
    ELSE SplitAcc(Tail(s), Sep, Append(cur, Head(s)))

split(s, Sep) == SplitAcc(s, Sep, <<>>)

\* words.filter((word) => word.length > 0)
filterNonEmpty(ws) == SelectSeq(ws, LAMBDA w : Len(w) > 0)

\* words.join(sep)
RECURSIVE join(_, _)
join(ws, sep) ==
    IF ws = <<>> THEN <<>>
    ELSE IF Len(ws) = 1 THEN ws[1]
    ELSE ws[1] \o sep \o join(Tail(ws), sep)

\* ----------------------------------------------------- results of a call
Returned(s) == [kind |-> "return", err |-> "none", val |-> s]
Thrown(e) == [kind |-> "throw", err |-> e, val |-> <<>>]
NoCall == [kind |-> "none", err |-> "none", val |-> <<>>]

StringValue(s) == [type |-> "string", val |-> s]


\* The null value, the undefined value, a number, a boolean and an object
NonStrings == {[type |-> t, val |-> <<>>] :
                  t \in {"null", "undefined", "number", "boolean", "object"}}

\* -------------------------------------------------------------- converters
\* toSnakeCase with .replace(/\s+/, '_'): without the g flag only the first
\* run of whitespace is replaced
RECURSIVE StripLeadingClass(_, _)
StripLeadingClass(s, Class) ==
    IF s # <<>> /\ Head(s) \in Class THEN StripLeadingClass(Tail(s), Class) ELSE s

RECURSIVE ReplaceFirstRun(_, _, _)
ReplaceFirstRun(s, Class, rep) ==
    IF s = <<>> THEN <<>>
    ELSE IF Head(s) \in Class THEN rep \o StripLeadingClass(Tail(s), Class)
    ELSE <<Head(s)>> \o ReplaceFirstRun(Tail(s), Class, rep)

toSnakeCaseFirstRunOnly(str) ==
    IF str.type # "string" THEN Thrown("TypeError")
    ELSE Returned(ReplaceFirstRun(toLowerCase(trim(str.val)), WhiteSpace, <<"_">>))

\* toSnakeCase without .trim()
toSnakeCaseNoTrim(str) ==
    IF str.type # "string" THEN Thrown("TypeError")
    ELSE Returned(ReplaceRuns(toLowerCase(str.val), WhiteSpace, <<"_">>))

\* src/basic_prompt.js:1-6.  No validation: .trim is looked up on the
\* argument, which throws a TypeError for null and undefined (property
\* access on a nullish value) and for a number, a boolean or a plain object
\* (str.trim is not a function).
toSnakeCase(str) ==
    IF str.type # "string" THEN Thrown("TypeError")
    ELSE Returned(ReplaceRuns(toLowerCase(trim(str.val)), WhiteSpace, <<"_">>))

\* The checks shared by toCamelCase (lines 72-88) and toDotCase (126-142);
\* "none" when the input passes.
validate(input) ==
    IF input.type = "null" THEN "NullInput"
    ELSE IF input.type = "undefined" THEN "UndefinedInput"
    ELSE IF input.type # "string" THEN "TypeMismatch"
    ELSE IF Len(trim(input.val)) = 0 THEN "EmptyInput"
    ELSE "none"

\* words without the .replace(/[^\w\s-]/g, "") in front
wordsUnsanitized(s) ==
    filterNonEmpty(split(s, WhiteSpace \cup {"_", "-"}))

\* words with .replace(/[^\w\s]/g, ""), which drops the hyphen as well
wordsDropHyphen(s) ==
    filterNonEmpty(split(RemoveNotIn(s, WordChar \cup WhiteSpace),
                         WhiteSpace \cup {"_", "-"}))

\* input.replace(/[^\w\s-]/g, "").split(/[\s_-]+/).filter(word => word.length > 0)
words(s) ==
    filterNonEmpty(split(RemoveNotIn(s, WordChar \cup WhiteSpace \cup {"-"}),
                         WhiteSpace \cup {"_", "-"}))

\* camelWord without the index === 0 case: every word capitalized
camelWordPascal(word, index) ==
    toUpperCase(<<word[1]>>) \o toLowerCase(Tail(word))

\* index === 0 ? word.toLowerCase()
\*             : word.charAt(0).toUpperCase() + word.slice(1).toLowerCase()
camelWord(word, index) ==
    IF index = 0 THEN toLowerCase(word)
    ELSE toUpperCase(<<word[1]>>) \o toLowerCase(Tail(word))

\* src/basic_prompt.js:70-109
toCamelCase(input) ==
    IF validate(input) # "none" THEN Thrown(validate(input))
    ELSE LET ws == words(input.val) IN
         IF Len(ws) = 0 THEN Thrown("NoValidCharacters")
         ELSE Returned(join([i \in 1..Len(ws) |-> camelWord(ws[i], i - 1)], <<>>))

\* src/basic_prompt.js:124-159
toDotCase(input) ==
    IF validate(input) # "none" THEN Thrown(validate(input))
    ELSE LET ws == words(input.val) IN
         IF Len(ws) = 0 THEN Thrown("NoValidCharacters")
         ELSE Returned(join([i \in 1..Len(ws) |-> toLowerCase(ws[i])], <<".">>))

\* .replace(/-+/g, '-').replace(/^-+|-+$/g, '')
RECURSIVE StripLeading(_, _)
StripLeading(s, c) ==
    IF s # <<>> /\ Head(s) = c THEN StripLeading(Tail(s), c) ELSE s

RECURSIVE StripTrailing(_, _)
StripTrailing(s, c) ==
    IF s # <<>> /\ s[Len(s)] = c
    THEN StripTrailing(SubSeq(s, 1, Len(s) - 1), c) ELSE s

\* kebabChain without the final .replace(/^-+|-+$/g, '')
kebabChainNoTrim(s) ==
    LET s1 == InsertHyphen(s, LowerAZ, UpperAZ)
        s2 == InsertHyphen(s1, Letter, Digit)
        s3 == InsertHyphen(s2, Digit, Letter)
        s4 == ReplaceRuns(s3, WhiteSpace \cup {"_"}, <<"-">>)
        s5 == RemoveNotIn(s4, WordChar \cup {"-"})
        s6 == toLowerCase(s5)
    IN  ReplaceRuns(s6, {"-"}, <<"-">>)

\* src/chain_prompt.js:5-20, the chain of replacements on a string
kebabChain(s) ==
    LET s1 == InsertHyphen(s, LowerAZ, UpperAZ)
        s2 == InsertHyphen(s1, Letter, Digit)
        s3 == InsertHyphen(s2, Digit, Letter)
        s4 == ReplaceRuns(s3, WhiteSpace \cup {"_"}, <<"-">>)
        s5 == RemoveNotIn(s4, WordChar \cup {"-"})
        s6 == toLowerCase(s5)
        s7 == ReplaceRuns(s6, {"-"}, <<"-">>)
    IN  StripTrailing(StripLeading(s7, "-"), "-")

\* src/chain_prompt.js:1-21.  !str is true of null, undefined and the empty
\* string (and of 0, NaN and false); every non-string returns ''.
toKebabCase(str) ==
    IF str.type # "string" \/ str.val = <<>> THEN Returned(<<>>)
    ELSE Returned(kebabChain(str.val))

Converters == {"toSnakeCase", "toCamelCase", "toDotCase", "toKebabCase"}

Apply(f, v) ==
    CASE f = "toSnakeCase" -> toSnakeCase(v)
      [] f = "toCamelCase" -> toCamelCase(v)
      [] f = "toDotCase"   -> toDotCase(v)
      [] f = "toKebabCase" -> toKebabCase(v)

\* ------------------------------------------------------------------ inputs
InputAlphabet == {"a", "B", "1", " ", "_", "-", "!", "."}

RECURSIVE StringsOfLen(_)
StringsOfLen(n) ==
    IF n = 0 THEN {<<>>}
    ELSE {Append(s, c) : s \in StringsOfLen(n - 1), c \in InputAlphabet}

Strings == UNION {StringsOfLen(n) : n \in 0..MaxLen}

\* The strings of the example sections of the two files, and a few more
Examples ==
    { <<"t","h","i","s"," ","i","s"," ","a","n"," ","e","x","a","m","p","l","e">>,
      <<"h","e","l","l","o"," ","w","o","r","l","d">>,
      <<"h","e","l","l","o","_","w","o","r","l","d">>,
      <<"h","e","l","l","o","-","w","o","r","l","d">>,
      <<"h","e","l","l","o","_","_","w","o","r","l","d">>,
      <<"h","e","l","l","o"," ","w","o","r","l","d","!"," ","t","e","s","t">>,
      <<"H","e","l","l","o","W","o","r","l","d">>,
      <<"h","e","l","l","o","W","o","r","l","d">>,
      <<"H","T","T","P","S","C","o","n","n","e","c","t","i","o","n">>,
      <<"u","s","e","r","_","f","u","l","l"," ","n","a","m","e","!">>,
      <<"!","!","!">>,
      <<" ","\t","\n">>,
      <<"\t","A"," ","\n","b","\t">>,
      <<"É","c","o","l","e"," ","h","t","m","l","5">> }

Inputs == NonStrings \cup {StringValue(s) : s \in Strings \cup Examples}

\* ------------------------------------------------------------------- state
VARIABLES
    fn,         \* the converter called, "none" before the call
    arg,        \* the value it was last called with
    out,        \* what that call did: returned a string or threw
    applied,    \* how often the converter was re-applied to its own output
    store,      \* ids of the comments in the collection
    pc,         \* per request: where its handler is
    req,        \* per request: method and id
    found,      \* per request: result of the awaited store operation
    responses   \* per request: the responses sent, in order

convVars == <<fn, arg, out, applied>>
routeVars == <<store, pc, req, found, responses>>
vars == <<fn, arg, out, applied, store, pc, req, found, responses>>

\* ------------------------------------------------------ the comments route
Ids == {1, 2}                  \* comment ids a request may name
InitialComments == {1}         \* the comments stored at start
Requests == 1..MaxRequests
NoRequest == [method |-> "none", id |-> 0, afterDeleted |-> FALSE]

\* ----------------------------------------------------------------- initial
RouteInit ==
    /\ store = InitialComments
    /\ pc = [r \in Requests |-> "idle"]
    /\ req = [r \in Requests |-> NoRequest]
    /\ found = [r \in Requests |-> "none"]
    /\ responses = [r \in Requests |-> <<>>]

Init ==
    /\ fn = "none"
    /\ arg \in Inputs
    /\ out = NoCall
    /\ applied = 0
    /\ RouteInit

RouteOnlyInit ==
    /\ fn = "none"
    /\ arg = StringValue(<<>>)
    /\ out = NoCall
    /\ applied = 0
    /\ RouteInit

\* ------------------------------------------------------- converter actions
Call(f) ==
    /\ fn = "none"
    /\ fn' = f
    /\ out' = Apply(f, arg)
    /\ UNCHANGED <<arg, applied>>
    /\ UNCHANGED routeVars

CallSnake == Call("toSnakeCase")
CallCamel == Call("toCamelCase")
CallDot == Call("toDotCase")
CallKebab == Call("toKebabCase")

\* The caller hands the returned string back to the same converter
Reapply ==
    /\ fn # "none"
    /\ out.kind = "return"
    /\ applied < MaxReapply
    /\ arg' = StringValue(out.val)
    /\ out' = Apply(fn, StringValue(out.val))
    /\ applied' = applied + 1
    /\ UNCHANGED fn
    /\ UNCHANGED routeVars

Next == CallSnake \/ CallCamel \/ CallDot \/ CallKebab \/ Reapply

Spec == Init /\ [][Next]_vars

\* ----------------------------------------------------------- route actions
\* Express dispatches a request to router.get("/") or router.delete("/:id").
\* Requests are numbered in the order of their arrival.
Receive(r, method, id) ==
    /\ pc[r] = "idle"
    /\ \A q \in 1..(r - 1) : pc[q] # "idle"
    /\ req' = [req EXCEPT ![r] =
                 [method |-> method, id |-> id,
                  afterDeleted |-> /\ method = "DELETE"
                                   /\ \E q \in Requests :
                                        /\ req[q].method = "DELETE"
                                        /\ req[q].id = id
                                        /\ responses[q] = <<200>>]]
    /\ pc' = [pc EXCEPT ![r] = "await"]
    /\ UNCHANGED <<store, found, responses>>
    /\ UNCHANGED convVars

\* comments.js:30, await Comment.find(): resolves with the documents or rejects
GetFind(r) ==
    /\ pc[r] = "await"
    /\ req[r].method = "GET"
    /\ \E ok \in BOOLEAN :
         found' = [found EXCEPT ![r] = IF ok THEN "list" ELSE "error"]
    /\ pc' = [pc EXCEPT ![r] = "respond"]
    /\ UNCHANGED <<store, req, responses>>
    /\ UNCHANGED convVars

\* comments.js:39-40, await Comment.findByIdAndDelete(id): resolves with the
\* removed document, resolves with null when no document has the id, or
\* rejects (the removal may or may not have been applied by then)
DeleteFindByIdAndDelete(r) ==
    /\ pc[r] = "await"
    /\ req[r].method = "DELETE"
    /\ \/ /\ req[r].id \in store
          /\ store' = store \ {req[r].id}
          /\ found' = [found EXCEPT ![r] = "doc"]
       \/ /\ req[r].id \notin store
          /\ store' = store
          /\ found' = [found EXCEPT ![r] = "null"]
       \/ /\ store' \in {store, store \ {req[r].id}}
          /\ found' = [found EXCEPT ![r] = "error"]
    /\ pc' = [pc EXCEPT ![r] = "respond"]
    /\ UNCHANGED <<req, responses>>
    /\ UNCHANGED convVars

\* StatusOf without the if (!deletedComment) branch
StatusOfNoNotFound(method, result) ==
    IF result = "error" THEN 500 ELSE 200

\* comments.js:31-34 and 42-49: the status of the one res.json call
StatusOf(method, result) ==
    IF result = "error" THEN 500
    ELSE IF method = "DELETE" /\ result = "null" THEN 404
    ELSE 200

Respond(r) ==
    /\ pc[r] = "respond"
    /\ responses' = [responses EXCEPT
                       ![r] = Append(@, StatusOf(req[r].method, found[r]))]
    /\ pc' = [pc EXCEPT ![r] = "done"]
    /\ UNCHANGED <<store, req, found>>
    /\ UNCHANGED convVars

RouteNext ==
    \/ \E r \in Requests, m \in {"GET", "DELETE"}, id \in Ids : Receive(r, m, id)
    \/ \E r \in Requests : GetFind(r)
    \/ \E r \in Requests : DeleteFindByIdAndDelete(r)
    \/ \E r \in Requests : Respond(r)

\* An awaited store operation settles (the driver resolves or rejects it, a
\* lost connection by its timeout) and the event loop then runs the rest of
\* the handler.
RouteFairness ==
    \A r \in Requests :
        /\ WF_vars(GetFind(r))
        /\ WF_vars(DeleteFindByIdAndDelete(r))
        /\ WF_vars(Respond(r))

RouteSpec == RouteOnlyInit /\ [][RouteNext]_vars /\ RouteFairness

\* ============================================================== properties
FirstCall == fn # "none" /\ applied = 0

\* The string literals of the example sections, as character sequences
HelloWorldPascal == <<"H","e","l","l","o","W","o","r","l","d">>
HelloDotWorld == <<"h","e","l","l","o",".","w","o","r","l","d">>
HelloWorldCamel == <<"h","e","l","l","o","W","o","r","l","d">>
HttpsConnection == <<"H","T","T","P","S","C","o","n","n","e","c","t","i","o","n">>
HttpsKebab == <<"h","t","t","p","s","-","c","o","n","n","e","c","t","i","o","n">>

AllIn(s, Class) == \A i \in 1..Len(s) : s[i] \in Class
HasWhiteSpace(s) == \E i \in 1..Len(s) : s[i] \in WhiteSpace

\* C1: each of the four converters, called with null, undefined, a
\* non-string or a whitespace-only string, fails with NullInput,
\* UndefinedInput, TypeMismatch or EmptyInput respectively and returns nothing.
C1_ValidationFailures ==
    FirstCall =>
        /\ arg.type = "null" => out = Thrown("NullInput")
        /\ arg.type = "undefined" => out = Thrown("UndefinedInput")
        /\ arg.type \notin {"null", "undefined", "string"}
              => out = Thrown("TypeMismatch")
        /\ (arg.type = "string" /\ arg.val # <<>> /\ AllIn(arg.val, WhiteSpace))
              => out = Thrown("EmptyInput")

\* C2: toCamelCase, toDotCase and toKebabCase are idempotent: applied to its
\* own output, the converter returns that output unchanged.
C2_Idempotent ==
    (fn \in {"toCamelCase", "toDotCase", "toKebabCase"} /\ applied >= 1)
        => out = Returned(arg.val)

\* Some letter stands next to a digit
LetterNextToDigit(s) ==
    \E i \in 1..(Len(s) - 1) :
        \/ s[i] \in Letter /\ s[i + 1] \in Digit
        \/ s[i] \in Digit /\ s[i + 1] \in Letter

\* C2 as amended: none of the three is idempotent on every input.  Applied to
\* its own output, toCamelCase returns that output lowercased, toDotCase
\* returns it with the dots removed, and toKebabCase returns it unchanged
\* unless a letter stands next to a digit in it, and then changed by hyphens
\* only.  From the second re-application on nothing changes any more:
\* f(f(f(x))) = f(f(x)).
C2_IdempotentAmended ==
    /\ (fn = "toCamelCase" /\ applied = 1)
          => out = Returned([i \in 1..Len(arg.val) |-> ToLowerChar(arg.val[i])])
    /\ (fn = "toDotCase" /\ applied = 1)
          => out = Returned(SelectSeq(arg.val, LAMBDA c : c # "."))
    /\ (fn = "toKebabCase" /\ applied = 1)
          => /\ out.kind = "return"
             /\ SelectSeq(out.val, LAMBDA c : c # "-")
                   = SelectSeq(arg.val, LAMBDA c : c # "-")
             /\ ~LetterNextToDigit(arg.val) => out.val = arg.val
    /\ (fn \in {"toCamelCase", "toDotCase", "toKebabCase"} /\ applied >= 2)
          => out = Returned(arg.val)

C2_Witness ==
    /\ fn = "toCamelCase"
    /\ applied = 1
    /\ out.kind = "return"
    /\ out.val # arg.val

\* Punctuation: neither a letter, a digit nor whitespace
Punctuation(c) == c \notin Letter \cup Digit \cup WhiteSpace \cup {"É", "é"}
PunctuationOnly(v) ==
    v.type = "string" /\ v.val # <<>> /\ \A i \in 1..Len(v.val) : Punctuation(v.val[i])

C4_NoWhiteSpace ==
    out.kind = "return" => ~HasWhiteSpace(out.val)

C4_Witness ==
    /\ fn = "toSnakeCase"
    /\ arg.type = "string"
    /\ HasWhiteSpace(trim(arg.val))
    /\ out.kind = "return"

\* C5: toDotCase puts a word boundary at every lowercase-to-uppercase
\* transition as well as at the separator runs: toDotCase("HelloWorld")
\* returns "hello.world".
C5_DotSplitsCaseTransitions ==
    (FirstCall /\ fn = "toDotCase" /\ arg = StringValue(HelloWorldPascal))
        => out = Returned(HelloDotWorld)

\* C6: toKebabCase separates an uppercase run from the capitalized word
\* after it: toKebabCase("HTTPSConnection") returns "https-connection".
C6_KebabAcronym ==
    (FirstCall /\ fn = "toKebabCase" /\ arg = StringValue(HttpsConnection))
        => out = Returned(HttpsKebab)

\* The characters of s at the positions of keep, in order, each mapped by f
Pick(s, keep(_), f(_)) ==
    LET idx == SelectSeq([k \in 1..Len(s) |-> k], keep)
    IN  [j \in 1..Len(idx) |-> f(idx[j])]

\* A character toCamelCase neither drops nor splits on
IsWordStuff(c) == c \in Letter \cup Digit

\* Position k of s is the first character of a word that is not the first
\* word: a separator lies between it and the kept character before it
StartsLaterWord(s, k) ==
    /\ IsWordStuff(s[k])
    /\ \E j \in 1..(k - 1) :
         /\ IsWordStuff(s[j])
         /\ \A m \in (j + 1)..(k - 1) : ~IsWordStuff(s[m])
         /\ \E m \in (j + 1)..(k - 1) : s[m] \in WhiteSpace \cup {"_", "-"}

\* C7: on a valid input toCamelCase drops the characters that are not word
\* characters, whitespace or hyphen, splits on runs of whitespace, underscore
\* and hyphen (dropping empty fragments) and concatenates the words, the
\* first one lowercased and every later one with its first character
\* uppercased and the rest lowercased.
C7_CamelCase ==
    (FirstCall /\ fn = "toCamelCase" /\ out.kind = "return") =>
        /\ out.val = Pick(arg.val,
                          LAMBDA k : IsWordStuff(arg.val[k]),
                          LAMBDA k : IF StartsLaterWord(arg.val, k)
                                     THEN ToUpperChar(arg.val[k])
                                     ELSE ToLowerChar(arg.val[k]))
        /\ arg.val = <<"h","e","l","l","o"," ","w","o","r","l","d","!"," ","t","e","s","t">>
              => out.val = <<"h","e","l","l","o","W","o","r","l","d","T","e","s","t">>
        /\ arg.val = <<"h","e","l","l","o","_","_","w","o","r","l","d">>
              => out.val = HelloWorldCamel

C7_Witness ==
    /\ FirstCall
    /\ fn = "toCamelCase"
    /\ out.kind = "return"
    /\ \E k \in 1..Len(arg.val) : StartsLaterWord(arg.val, k)
    /\ \E k \in 1..Len(arg.val) : Punctuation(arg.val[k]) /\ arg.val[k] \notin {"_", "-"}

\* C8: toSnakeCase returns its input lowercased with every maximal run of
\* whitespace replaced by one underscore and nothing else changed; leading
\* and trailing whitespace runs become underscores and are not trimmed.
C8_SnakeKeepsOuterWhiteSpace ==
    (FirstCall /\ fn = "toSnakeCase" /\ arg.type = "string") =>
        out = Returned(Pick(arg.val,
                            LAMBDA k : arg.val[k] \in WhiteSpace
                                          => (k = 1 \/ arg.val[k - 1] \notin WhiteSpace),
                            LAMBDA k : IF arg.val[k] \in WhiteSpace THEN "_"
                                       ELSE ToLowerChar(arg.val[k])))

\* Position k of s lies between two characters that are not whitespace
Inner(s, k) ==
    /\ \E j \in 1..(k - 1) : s[j] \notin WhiteSpace
    /\ \E j \in (k + 1)..Len(s) : s[j] \notin WhiteSpace

\* C8 as amended: toSnakeCase first trims the leading and trailing
\* whitespace, then returns the rest lowercased with every maximal run of
\* whitespace replaced by one underscore and nothing else changed; leading
\* and trailing whitespace leaves no underscore.
C8_SnakeTrims ==
    (FirstCall /\ fn = "toSnakeCase" /\ arg.type = "string") =>
        out = Returned(Pick(arg.val,
                            LAMBDA k : arg.val[k] \in WhiteSpace
                                          => /\ Inner(arg.val, k)
                                             /\ arg.val[k - 1] \notin WhiteSpace,
                            LAMBDA k : IF arg.val[k] \in WhiteSpace THEN "_"
                                       ELSE ToLowerChar(arg.val[k])))

C8_Witness ==
    /\ FirstCall
    /\ fn = "toSnakeCase"
    /\ arg.type = "string"
    /\ arg.val # <<>>
    /\ arg.val[1] \in WhiteSpace
    /\ \E k \in 1..Len(arg.val) : arg.val[k] \in WhiteSpace /\ Inner(arg.val, k)
    /\ out.kind = "return"
    /\ out.val[1] # "_"

\* C9: a string returned by toKebabCase consists of lowercase ASCII letters,
\* digits and hyphens only, has no two hyphens in a row and neither starts
\* nor ends with a hyphen.
C9_KebabShape ==
    (fn = "toKebabCase" /\ arg.type = "string" /\ out.kind = "return") =>
        /\ AllIn(out.val, LowerAZ \cup Digit \cup {"-"})
        /\ \A i \in 1..(Len(out.val) - 1) : ~(out.val[i] = "-" /\ out.val[i + 1] = "-")
        /\ out.val # <<>> => (out.val[1] # "-" /\ out.val[Len(out.val)] # "-")

C9_Witness ==
    /\ FirstCall
    /\ fn = "toKebabCase"
    /\ arg = StringValue(<<"u","s","e","r","_","f","u","l","l"," ","n","a","m","e","!">>)
    /\ out = Returned(<<"u","s","e","r","-","f","u","l","l","-","n","a","m","e">>)

\* C10: every DELETE /:id request gets exactly one response: 200 when the
\* comment existed and the request removed it, 404 when there is no such
\* comment, 500 when the store operation fails; so a DELETE for an id that
\* an earlier DELETE was answered 200 for gets 404 (500 when the store
\* fails), and a GET / never changes the collection.
C10_OneResponse ==
    \A r \in Requests :
        /\ Len(responses[r]) <= 1
        /\ pc[r] = "done" <=> Len(responses[r]) = 1

C10_Statuses ==
    \A r \in Requests :
        (req[r].method = "DELETE" /\ pc[r] = "done") =>
            /\ responses[r] = <<200>> <=> found[r] = "doc"
            /\ responses[r] = <<404>> <=> found[r] = "null"
            /\ responses[r] = <<500>> <=> found[r] = "error"
            /\ responses[r] = <<200>> => req[r].id \notin store
            /\ responses[r] = <<404>> => req[r].id \notin store
            /\ \A q \in Requests \ {r} :
                 (req[q].method = "DELETE" /\ req[q].id = req[r].id)
                    => ~(responses[q] = <<200>> /\ responses[r] = <<200>>)
            /\ req[r].afterDeleted
                 => responses[r] = IF found[r] = "error" THEN <<500>> ELSE <<404>>

C10_StoreSteps ==
    [][store' # store =>
          \E r \in Requests :
              /\ req[r].method = "DELETE"
              /\ pc[r] = "await"
              /\ pc'[r] = "respond"
              /\ req[r].id \in store
              /\ store' = store \ {req[r].id}]_vars

C10_Answered == \A r \in Requests : (pc[r] = "await") ~> (pc[r] = "done")

\* C10: every request of the comments route is answered exactly once, a
\* DELETE with 200, 404 or 500 as above, a DELETE after a 200 for the same id
\* with 404, and only a DELETE of a stored comment changes the collection.
C10_DeleteRoute ==
    /\ [](C10_OneResponse /\ C10_Statuses)
    /\ C10_StoreSteps
    /\ C10_Answered

C10_Witness ==
    \E r, q \in Requests :
        /\ req[r].method = "DELETE" /\ responses[r] = <<200>>
        /\ req[q].afterDeleted /\ responses[q] = <<404>>
====
